---- MODULE Spec2Model ----
(***************************************************************************)
(* Recommendation service: server.js, modelPrediction.js and               *)
(* dataProcessing.js.                                                      *)
(*                                                                         *)
(* Representation.  A JavaScript string is a sequence of symbols.  Field   *)
(* values of customer rows and query parameters are sequences of one-      *)
(* character symbols; product names are sequences of word symbols joined   *)
(* by single blanks (no word symbol is a substring of another one, so      *)
(* String.includes on the joined text is contiguous-subsequence match on   *)
(* the words).  A JavaScript object is a function whose DOMAIN is its set  *)
(* of own keys; reading an absent key gives undefined.  A JavaScript       *)
(* number is <<v>> with v an integer count of 1/Scale units, and NaN is    *)
(* the empty tuple.  The numeric strings of the model hold no exponent,    *)
(* no hex prefix and no "Infinity", which ParseFloat and ParseInt below    *)
(* therefore do not decode.                                                *)
(***************************************************************************)
EXTENDS Integers, Sequences, FiniteSets, TLC

\* ------------------------------------------------------------------------
\* Bounds
\* ------------------------------------------------------------------------
MaxLen == 3

MaxReqs == 2

MaxCustomers == 2

MaxCatalog == 2

MaxProducts == 4

MaxScore == 2

MaxNameWords == 4

MaxFields == 2

\* ------------------------------------------------------------------------
\* Numbers
\* ------------------------------------------------------------------------
RECURSIVE Pow10(_)
Pow10(n) == IF n = 0 THEN 1 ELSE 10 * Pow10(n - 1)

\* A numeral directly followed by a unit within MaxLen symbols has at most
\* MaxLen - 2 fraction digits; the other numeric samples have at most one.
Scale == Pow10(MaxLen - 2)

NaN == <<>>

Num(n) == <<n * Scale>>

IsNaN(x) == x = NaN

IsFinite(x) == Len(x) = 1

Zero == Num(0)

\* JavaScript `x || 0` on a number: NaN and 0 are falsy.
OrZero(x) == IF IsNaN(x) \/ x = Zero THEN Zero ELSE x

Add(x, y) == IF IsNaN(x) \/ IsNaN(y) THEN NaN ELSE <<x[1] + y[1]>>

Times(x, k) == IF IsNaN(x) THEN NaN ELSE <<x[1] * k>>

\* ------------------------------------------------------------------------
\* Strings
\* ------------------------------------------------------------------------
Digits == {"0", "1", "2", "3", "4", "5", "6", "7", "8", "9"}

DigitValue(c) ==
  CASE c = "0" -> 0 [] c = "1" -> 1 [] c = "2" -> 2 [] c = "3" -> 3
    [] c = "4" -> 4 [] c = "5" -> 5 [] c = "6" -> 6 [] c = "7" -> 7
    [] c = "8" -> 8 [] c = "9" -> 9

UpperLetters ==
  { "A", "B", "C", "D", "E", "F", "G", "H", "I", "J", "K", "L",
    "M", "N", "O", "P", "Q", "R", "S", "T", "U", "V", "W", "X", "Y", "Z" }

LowerLetters ==
  { "a", "b", "c", "d", "e", "f", "g", "h", "i", "j", "k", "l",
    "m", "n", "o", "p", "q", "r", "s", "t", "u", "v", "w", "x", "y", "z" }

Letters == UpperLetters \cup LowerLetters

\* Pairs <<upper case symbol, lower case symbol>>.
CasePairs ==
  {
    <<"A", "a">>, <<"B", "b">>, <<"C", "c">>, <<"D", "d">>, <<"E", "e">>,
    <<"F", "f">>, <<"G", "g">>, <<"H", "h">>, <<"I", "i">>, <<"J", "j">>,
    <<"K", "k">>, <<"L", "l">>, <<"M", "m">>, <<"N", "n">>, <<"O", "o">>,
    <<"P", "p">>, <<"Q", "q">>, <<"R", "r">>, <<"S", "s">>, <<"T", "t">>,
    <<"U", "u">>, <<"V", "v">>, <<"W", "w">>, <<"X", "x">>, <<"Y", "y">>,
    <<"Z", "z">>,
    <<"Fiber", "fiber">>, <<"FIBER", "fiber">>, <<"Whole-Home", "whole-home">>,
    <<"Wi-Fi", "wi-fi">>, <<"Security", "security">>, <<"Plus", "plus">>,
    <<"Total Shield", "total shield">>,
    <<"My Premium Tech Pro", "my premium tech pro">>,
    <<"Identity Protection", "identity protection">>,
    <<"YouTube TV", "youtube tv">>,
    <<"Additional Extender", "additional extender">>,
    <<"Battery Back-Up for", "battery back-up for">>,
    <<"Unbreakable", "unbreakable">>, <<"Gig", "gig">>,
    <<"Small", "small">>, <<"Medium", "medium">>, <<"Large", "large">> }

LowerSym(c) ==
  IF \E p \in CasePairs : p[1] = c
  THEN (CHOOSE p \in CasePairs : p[1] = c)[2]
  ELSE c

UpperSym(c) ==
  IF \E p \in CasePairs : p[2] = c /\ p[1] \in UpperLetters
  THEN (CHOOSE p \in CasePairs : p[2] = c /\ p[1] \in UpperLetters)[1]
  ELSE c

ToLowerCase(s) == [i \in DOMAIN s |-> LowerSym(s[i])]

ToUpperCase(s) == [i \in DOMAIN s |-> UpperSym(s[i])]

\* Last index of the maximal run of symbols of `set` starting at i
\* (i - 1 when s[i] is not in `set`).
RECURSIVE RunEnd(_, _, _)
RunEnd(s, i, set) ==
  IF i <= Len(s) /\ s[i] \in set THEN RunEnd(s, i + 1, set) ELSE i - 1

RECURSIVE DigitsValue(_)
DigitsValue(d) ==
  IF d = <<>> THEN 0
  ELSE 10 * DigitsValue(SubSeq(d, 1, Len(d) - 1)) + DigitValue(d[Len(d)])

WhiteSpace == {" "}

SkipWhiteSpace(s) == SubSeq(s, RunEnd(s, 1, WhiteSpace) + 1, Len(s))

\* Sign prefix of a trimmed numeric string: <<sign, rest>>.
SignSplit(t) ==
  IF t # <<>> /\ t[1] = "-" THEN <<-1, Tail(t)>>
  ELSE IF t # <<>> /\ t[1] = "+" THEN <<1, Tail(t)>>
  ELSE <<1, t>>

\* parseFloat: the longest prefix, after leading blanks and a sign, of the
\* form digits [. digits] or . digits; NaN when there is no digit.
ParseFloat(s) ==
  LET sp   == SignSplit(SkipWhiteSpace(s))
      t    == sp[2]
      ie   == RunEnd(t, 1, Digits)
      int  == SubSeq(t, 1, ie)
      dot  == ie + 1 <= Len(t) /\ t[ie + 1] = "."
      fe   == IF dot THEN RunEnd(t, ie + 2, Digits) ELSE ie
      frac == IF dot THEN SubSeq(t, ie + 2, fe) ELSE <<>>
  IN  IF int = <<>> /\ frac = <<>> THEN NaN
      ELSE <<sp[1] * (DigitsValue(int) * Scale
                      + (DigitsValue(frac) * Scale) \div Pow10(Len(frac)))>>

\* parseInt, radix 10: the digit run after leading blanks and a sign.
ParseInt(s) ==
  LET sp  == SignSplit(SkipWhiteSpace(s))
      int == SubSeq(sp[2], 1, RunEnd(sp[2], 1, Digits))
  IN  IF int = <<>> THEN NaN ELSE <<sp[1] * DigitsValue(int) * Scale>>

\* ------------------------------------------------------------------------
\* JavaScript objects
\* ------------------------------------------------------------------------
EmptyObject == [k \in {} |-> <<>>]

Has(obj, key) == key \in DOMAIN obj

\* Truthiness of a string-valued property: present and not "".
Truthy(obj, key) == Has(obj, key) /\ obj[key] # <<>>

\* parseFloat(obj.key) and parseInt(obj.key); undefined parses to NaN.
ParseFloatProp(obj, key) == IF Has(obj, key) THEN ParseFloat(obj[key]) ELSE NaN

ParseIntProp(obj, key) == IF Has(obj, key) THEN ParseInt(obj[key]) ELSE NaN

\* ------------------------------------------------------------------------
\* dataProcessing.js: network_speed
\* ------------------------------------------------------------------------
DigitOrDot == Digits \cup {"."}

\* String.match(/([\d\.]+)([A-Za-z]+)/): the leftmost position from which a
\* run of digits and dots is directly followed by a letter.
SpeedMatchAt(s, i) ==
  /\ s[i] \in DigitOrDot
  /\ RunEnd(s, i, DigitOrDot) < Len(s)
  /\ s[RunEnd(s, i, DigitOrDot) + 1] \in Letters

SpeedMatches(s) == \E i \in DOMAIN s : SpeedMatchAt(s, i)

SpeedMatch(s) ==
  LET i == CHOOSE k \in DOMAIN s :
             SpeedMatchAt(s, k) /\ \A m \in 1..(k - 1) : ~SpeedMatchAt(s, m)
      j == RunEnd(s, i, DigitOrDot)
  IN  <<SubSeq(s, i, j), SubSeq(s, j + 1, RunEnd(s, j + 1, Letters))>>

\* The unit ignored: no multiplication for "G".
NetworkSpeedUnitValueNoGiga(speedValue, speedUnit) == speedValue

NetworkSpeedUnitValue(speedValue, speedUnit) ==
  IF speedUnit = <<"M">> THEN speedValue
  ELSE IF speedUnit = <<"G">> THEN Times(speedValue, 1000)
  ELSE speedValue

NetworkSpeed(customer) ==
  IF Truthy(customer, "network_speed")
       /\ SpeedMatches(customer["network_speed"])
  THEN LET speedMatch == SpeedMatch(customer["network_speed"])
       IN  NetworkSpeedUnitValue(ParseFloat(speedMatch[1]),
                                 ToUpperCase(speedMatch[2]))
  ELSE Zero

\* ------------------------------------------------------------------------
\* dataProcessing.js: loadCustomerData's per-row mapping
\* ------------------------------------------------------------------------
TotalDevices(customer) ==
  Add(OrZero(ParseIntProp(customer, "wireless_clients_count")),
      OrZero(ParseIntProp(customer, "wired_clients_count")))

\* The derivation with the extender threshold moved off 2.
CoverageSizeAboveTwo(customer) ==
  LET extenders    == OrZero(ParseIntProp(customer, "extenders"))
      totalDevices == TotalDevices(customer)
  IN  IF extenders[1] > Num(2)[1] \/ totalDevices[1] > Num(15)[1]
      THEN <<"Large">>
      ELSE IF extenders = Zero /\ totalDevices[1] <= Num(5)[1]
      THEN <<"Small">>
      ELSE <<"Medium">>

CoverageSize(customer) ==
  LET extenders    == OrZero(ParseIntProp(customer, "extenders"))
      totalDevices == TotalDevices(customer)
  IN  IF extenders[1] >= Num(2)[1] \/ totalDevices[1] > Num(15)[1]
      THEN <<"Large">>
      ELSE IF extenders = Zero /\ totalDevices[1] <= Num(5)[1]
      THEN <<"Small">>
      ELSE <<"Medium">>

\* customer.f && (lower(f) === 'true' || lower(f) === '1') ? 1 : 0
BooleanField(customer, key) ==
  IF Truthy(customer, key)
       /\ ( \/ ToLowerCase(customer[key]) = <<"t", "r", "u", "e">>
            \/ ToLowerCase(customer[key]) = <<"1">> )
  THEN Num(1) ELSE Zero

States ==
  << <<"T", "X">>, <<"C", "A">>, <<"C", "T">>, <<"F", "L">>, <<"O", "H">>,
     <<"I", "N">>, <<"P", "A">>, <<"W", "V">>, <<"I", "L">>, <<"N", "V">> >>

StateKeys ==
  << "state_TX", "state_CA", "state_CT", "state_FL", "state_OH",
     "state_IN", "state_PA", "state_WV", "state_IL", "state_NV" >>

StateKeySet == {StateKeys[i] : i \in DOMAIN StateKeys}

StateIndex(key) == CHOOSE i \in DOMAIN StateKeys : StateKeys[i] = key

\* The encoding without its toUpperCase.
StateOneHotCaseSensitive(customer) ==
  [key \in StateKeySet |->
     IF Truthy(customer, "state")
          /\ customer["state"] = States[StateIndex(key)]
     THEN Num(1) ELSE Zero]

StateOneHot(customer) ==
  [key \in StateKeySet |->
     IF Truthy(customer, "state")
          /\ ToUpperCase(customer["state"]) = States[StateIndex(key)]
     THEN Num(1) ELSE Zero]

CustomerNameOf(customer) ==
  IF Truthy(customer, "CustomerName") THEN customer["CustomerName"]
  ELSE IF Truthy(customer, "customerName") THEN customer["customerName"]
  ELSE IF Truthy(customer, "customer_name") THEN customer["customer_name"]
  ELSE <<>>

RxAvgBps(customer) ==
  IF OrZero(ParseFloatProp(customer, "rx_avg_bps")) # Zero
  THEN ParseFloatProp(customer, "rx_avg_bps")
  ELSE OrZero(ParseFloatProp(customer, "rxAvgBps"))

\* The callback of customers.map in loadCustomerData.
MapCustomer(customer) ==
  StateOneHot(customer) @@
  [ customerName        |-> CustomerNameOf(customer),
    total_devices       |-> TotalDevices(customer),
    avg_bandwidth_usage |-> OrZero(ParseFloatProp(customer, "rx_avg_bps")),
    network_speed       |-> NetworkSpeed(customer),
    coverage_size       |-> CoverageSize(customer),
    wifi_security       |-> BooleanField(customer, "wifi_security"),
    wifi_security_plus  |-> BooleanField(customer, "wifi_security_plus"),
    total_shield        |-> BooleanField(customer, "total_shield"),
    rx_avg_bps          |-> RxAvgBps(customer),
    tx_avg_bps          |-> OrZero(ParseFloatProp(customer, "tx_avg_bps")),
    rx_p95_bps          |-> OrZero(ParseFloatProp(customer, "rx_p95_bps")),
    tx_p95_bps          |-> OrZero(ParseFloatProp(customer, "tx_p95_bps")),
    rx_max_bps          |-> OrZero(ParseFloatProp(customer, "rx_max_bps")),
    tx_max_bps          |-> OrZero(ParseFloatProp(customer, "tx_max_bps")),
    rssi_mean           |-> OrZero(ParseFloatProp(customer, "rssi_mean")),
    rssi_median         |-> OrZero(ParseFloatProp(customer, "rssi_median")),
    rssi_max            |-> OrZero(ParseFloatProp(customer, "rssi_max")),
    rssi_min            |-> OrZero(ParseFloatProp(customer, "rssi_min")) ]

\* ------------------------------------------------------------------------
\* dataProcessing.js: preprocessCustomers, for one customer
\* ------------------------------------------------------------------------
CoverageSizes == << <<"Small">>, <<"Medium">>, <<"Large">> >>

CoverageKeys ==
  << "coverage_size_Small", "coverage_size_Medium", "coverage_size_Large" >>

CoverageKeySet == {CoverageKeys[i] : i \in DOMAIN CoverageKeys}

CoverageIndex(key) == CHOOSE i \in DOMAIN CoverageKeys : CoverageKeys[i] = key

CoverageSizeOneHot(customer) ==
  [key \in CoverageKeySet |->
     IF ToLowerCase(customer["coverage_size"])
          = ToLowerCase(CoverageSizes[CoverageIndex(key)])
     THEN Num(1) ELSE Zero]

PreprocessStateOneHot(customer) ==
  [key \in StateKeySet |->
     IF Has(customer, key) /\ customer[key] = Num(1) THEN Num(1) ELSE Zero]

PreprocessCustomer(customer) ==
  PreprocessStateOneHot(customer) @@ CoverageSizeOneHot(customer) @@ customer

\* ------------------------------------------------------------------------
\* modelPrediction.js: the feature schema
\* ------------------------------------------------------------------------
continuousFeatures ==
  << "total_devices", "avg_bandwidth_usage", "network_speed", "tx_avg_bps",
     "rx_p95_bps", "tx_p95_bps", "rx_max_bps", "tx_max_bps", "rssi_mean",
     "rssi_median", "rssi_max", "rssi_min" >>

categoricalFeatures ==
  << "coverage_size_Small", "coverage_size_Medium", "coverage_size_Large",
     "state_TX", "state_CA", "state_CT", "state_FL", "state_OH", "state_IN",
     "state_PA", "state_WV", "state_IL", "state_NV" >>

\* ------------------------------------------------------------------------
\* modelPrediction.js: getState and generateAIExplanation
\* ------------------------------------------------------------------------
RECURSIVE GetStateFrom(_, _)
GetStateFrom(customer, i) ==
  IF i > Len(StateKeys) THEN <<"Unknown">>
  ELSE IF Has(customer, StateKeys[i]) /\ customer[StateKeys[i]] = Num(1)
  THEN States[i]
  ELSE GetStateFrom(customer, i + 1)

GetState(customer) == GetStateFrom(customer, 1)

\* String.includes on word sequences.
Includes(text, part) ==
  \E i \in 0..(Len(text) - Len(part)) :
     SubSeq(text, i + 1, i + Len(part)) = part

\* As GenerateAIExplanation's rule list, with the plain "wi-fi security" rule
\* moved in front of "wi-fi security plus".
ExplanationRulesPlainFirst ==
  << [keyword |-> <<"fiber">>,                 template |-> "fiber"],
     [keyword |-> <<"whole-home", "wi-fi">>,   template |-> "whole-home wi-fi"],
     [keyword |-> <<"wi-fi", "security">>,     template |-> "wi-fi security"],
     [keyword |-> <<"wi-fi", "security", "plus">>,
                                               template |-> "wi-fi security plus"],
     [keyword |-> <<"total shield">>,          template |-> "total shield"],
     [keyword |-> <<"my premium tech pro">>,   template |-> "my premium tech pro"],
     [keyword |-> <<"identity protection">>,   template |-> "identity protection"],
     [keyword |-> <<"youtube tv">>,            template |-> "youtube tv"],
     [keyword |-> <<"additional extender">>,   template |-> "additional extender"],
     [keyword |-> <<"battery back-up for", "unbreakable", "wi-fi">>,
                          template |-> "battery back-up for unbreakable wi-fi"],
     [keyword |-> <<"unbreakable", "wi-fi">>,  template |-> "unbreakable wi-fi"] >>

\* The if / else-if chain of generateAIExplanation, in source order.
ExplanationRules ==
  << [keyword |-> <<"fiber">>,                 template |-> "fiber"],
     [keyword |-> <<"whole-home", "wi-fi">>,   template |-> "whole-home wi-fi"],
     [keyword |-> <<"wi-fi", "security", "plus">>,
                                               template |-> "wi-fi security plus"],
     [keyword |-> <<"wi-fi", "security">>,     template |-> "wi-fi security"],
     [keyword |-> <<"total shield">>,          template |-> "total shield"],
     [keyword |-> <<"my premium tech pro">>,   template |-> "my premium tech pro"],
     [keyword |-> <<"identity protection">>,   template |-> "identity protection"],
     [keyword |-> <<"youtube tv">>,            template |-> "youtube tv"],
     [keyword |-> <<"additional extender">>,   template |-> "additional extender"],
     [keyword |-> <<"battery back-up for", "unbreakable", "wi-fi">>,
                          template |-> "battery back-up for unbreakable wi-fi"],
     [keyword |-> <<"unbreakable", "wi-fi">>,  template |-> "unbreakable wi-fi"] >>

RECURSIVE SelectTemplateFrom(_, _)
SelectTemplateFrom(lowerName, i) ==
  IF i > Len(ExplanationRules) THEN "generic"
  ELSE IF Includes(lowerName, ExplanationRules[i].keyword)
  THEN ExplanationRules[i].template
  ELSE SelectTemplateFrom(lowerName, i + 1)

SelectTemplate(productName) == SelectTemplateFrom(ToLowerCase(productName), 1)

\* (x / 1e6).toFixed(2), as a count of hundredths, rounded half away from 0.
ToFixed2Mbps(x) ==
  LET d == Scale * 10000
      a == IF x[1] < 0 THEN -x[1] ELSE x[1]
      q == (2 * a + d) \div (2 * d)
  IN  IF x[1] < 0 THEN -q ELSE q

\* The values the selected template interpolates besides the product name.
TemplateArgs(template, customer, product) ==
  CASE template = "fiber" ->
         [networkSpeed |-> customer["network_speed"],
          avgBandwidth |-> ToFixed2Mbps(customer["avg_bandwidth_usage"])]
    [] template = "whole-home wi-fi" ->
         [devices      |-> customer["total_devices"],
          coverageSize |-> customer["coverage_size"]]
    [] template = "my premium tech pro" ->
         [devices |-> customer["total_devices"]]
    [] template = "identity protection" ->
         [state |-> GetState(customer)]
    [] template = "generic" ->
         [features |-> product.features]
    [] OTHER -> EmptyObject

GenerateAIExplanation(customer, product) ==
  LET template == SelectTemplate(product.productName)
  IN  [ name        |-> IF customer["customerName"] # <<>>
                        THEN customer["customerName"]
                        ELSE <<"Valued Customer">>,
        productName |-> product.productName,
        template    |-> template,
        args        |-> TemplateArgs(template, customer, product) ]

\* ------------------------------------------------------------------------
\* modelPrediction.js: ranking in getRecommendations
\* ------------------------------------------------------------------------
\* products.map((product, index) => ({rank: index + 1, ...}))
ScoredProducts(products, predictionArray) ==
  [index \in DOMAIN products |->
     [ rank        |-> index,
       productName |-> products[index].name,
       score       |-> predictionArray[index],
       features    |-> products[index].features,
       price       |-> products[index].price ]]

\* The comparator with its operands exchanged: (a, b) => a.score - b.score.
CompareScoreAscending(a, b) == a.score - b.score

\* The comparator (a, b) => b.score - a.score.
CompareScore(a, b) == b.score - a.score

\* Where Array.prototype.sort (stable) puts x into an already sorted list:
\* after every element that does not compare greater than x.
RECURSIVE InsertPosition(_, _, _)
InsertPosition(sorted, x, i) ==
  IF i <= Len(sorted) /\ CompareScore(sorted[i], x) <= 0
  THEN InsertPosition(sorted, x, i + 1)
  ELSE i

RECURSIVE SortByScore(_)
SortByScore(list) ==
  IF list = <<>> THEN <<>>
  ELSE LET sorted == SortByScore(SubSeq(list, 1, Len(list) - 1))
           x      == list[Len(list)]
           k      == InsertPosition(sorted, x, 1)
       IN  SubSeq(sorted, 1, k - 1) \o <<x>> \o SubSeq(sorted, k, Len(sorted))

\* The ranks left as assigned before the sort.
UpdateRanksSkipped(list) == list

\* rankedProducts.forEach((product, index) => { product.rank = index + 1 })
UpdateRanks(list) == [index \in DOMAIN list |-> [list[index] EXCEPT !.rank = index]]

WithExplanations(preprocessedCustomer, rankedProducts) ==
  [i \in DOMAIN rankedProducts |->
     [ rank        |-> rankedProducts[i].rank,
       productName |-> rankedProducts[i].productName,
       score       |-> rankedProducts[i].score,
       price       |-> rankedProducts[i].price,
       explanation |-> GenerateAIExplanation(preprocessedCustomer,
                                             rankedProducts[i]) ]]

\* Lines 206-232 of getRecommendations.
RankProducts(preprocessedCustomer, products, predictionArray) ==
  WithExplanations(preprocessedCustomer,
    UpdateRanks(SortByScore(ScoredProducts(products, predictionArray))))

\* ------------------------------------------------------------------------
\* Tensors: an element is the exact fraction <<p, q>> in lowest terms, q > 0;
\* <<1, 0>> and <<-1, 0>> are the infinities and <<0, 0>> is NaN.
\* ------------------------------------------------------------------------
Abs(n) == IF n < 0 THEN 0 - n ELSE n

Sign(n) == IF n < 0 THEN 0 - 1 ELSE IF n > 0 THEN 1 ELSE 0

RECURSIVE Gcd(_, _)
Gcd(a, b) == IF b = 0 THEN a ELSE Gcd(b, a % b)

Fraction(p, q) ==
  IF q = 0 THEN <<Sign(p), 0>>
  ELSE LET g == Gcd(Abs(p), Abs(q))
       IN  <<Sign(q) * (Abs(p) \div g) * Sign(p), Abs(q) \div g>>

ZeroElement == <<0, 1>>

OneElement == <<1, 1>>

\* The literal 1e-8.
Epsilon == <<1, 100000000>>

IsFiniteElement(a) == a[2] # 0

\* A JavaScript number as a tensor element. Numbers read from JSON are
\* kept as the fraction their numeral denotes.
ToElement(x) ==
  IF Len(x) = 2 THEN x
  ELSE IF IsNaN(x) THEN <<0, 0>>
  ELSE Fraction(x[1], Scale)

\* Element arithmetic, on finite operands.
SubElement(a, b) ==
  LET g == Gcd(a[2], b[2])
      l == (a[2] \div g) * b[2]
  IN  Fraction(a[1] * (l \div a[2]) - b[1] * (l \div b[2]), l)

AddElement(a, b) == SubElement(a, <<0 - b[1], b[2]>>)

MulElement(a, b) ==
  LET g1 == Gcd(Abs(a[1]), b[2])
      g2 == Gcd(Abs(b[1]), a[2])
  IN  Fraction((a[1] \div g1) * (b[1] \div g2), (a[2] \div g2) * (b[2] \div g1))

\* x / 0 is an infinity of x's sign, 0 / 0 is NaN.
DivElement(a, b) ==
  IF b[1] = 0 THEN <<Sign(a[1]), 0>>
  ELSE MulElement(a, <<Sign(b[1]) * b[2], Abs(b[1])>>)

LessElement(a, b) == SubElement(a, b)[1] < 0

\* tf.tensor2d([row]) and the element-wise operations on rows of one shape;
\* a scalar operand is broadcast.
Tensor2d(row) == [i \in DOMAIN row |-> ToElement(row[i])]

TensorSub(a, b) == [i \in DOMAIN a |-> SubElement(a[i], b[i])]

TensorAdd(a, b) == [i \in DOMAIN a |-> AddElement(a[i], b[i])]

TensorDiv(a, b) == [i \in DOMAIN a |-> DivElement(a[i], b[i])]

TensorEqual(a, scalar) ==
  [i \in DOMAIN a |-> IF a[i] = scalar THEN OneElement ELSE ZeroElement]

TensorMul(a, scalar) == [i \in DOMAIN a |-> MulElement(a[i], scalar)]

\* ------------------------------------------------------------------------
\* modelPrediction.js: the input vector of getRecommendations
\* ------------------------------------------------------------------------
\* preprocessedCustomer[feature] || 0
FeatureOrZero(customer, feature) ==
  IF Has(customer, feature) THEN OrZero(customer[feature]) ELSE Zero

InputContinuous(preprocessedCustomer) ==
  [i \in DOMAIN continuousFeatures |->
     FeatureOrZero(preprocessedCustomer, continuousFeatures[i])]

InputCategorical(preprocessedCustomer) ==
  [i \in DOMAIN categoricalFeatures |->
     FeatureOrZero(preprocessedCustomer, categoricalFeatures[i])]

\* The denominator left as max - min.
SafeDenomNoEpsilon(denom) == denom

\* denom.add(denom.equal(0).mul(1e-8))
SafeDenom(denom) ==
  TensorAdd(denom, TensorMul(TensorEqual(denom, ZeroElement), Epsilon))

NormalizedContinuousInput(inputContinuous, normalizationData) ==
  LET inputTensor == Tensor2d(inputContinuous)
      inputMax    == Tensor2d(normalizationData.inputMax)
      inputMin    == Tensor2d(normalizationData.inputMin)
      denom       == TensorSub(inputMax, inputMin)
  IN  TensorDiv(TensorSub(inputTensor, inputMin), SafeDenom(denom))

\* The concatenation with the categorical block ahead of the continuous one.
NormalizedInputCategoricalFirst(preprocessedCustomer, normalizationData) ==
  Tensor2d(InputCategorical(preprocessedCustomer)) \o
  NormalizedContinuousInput(InputContinuous(preprocessedCustomer),
                            normalizationData)

NormalizedInput(preprocessedCustomer, normalizationData) ==
  NormalizedContinuousInput(InputContinuous(preprocessedCustomer),
                            normalizationData) \o
  Tensor2d(InputCategorical(preprocessedCustomer))

\* ------------------------------------------------------------------------
\* modelTraining.js: the training inputs and the saved normalization data
\* ------------------------------------------------------------------------
TrainContinuousFeatures ==
  << "total_devices", "avg_bandwidth_usage", "network_speed", "tx_avg_bps",
     "rx_p95_bps", "tx_p95_bps", "rx_max_bps", "tx_max_bps", "rssi_mean",
     "rssi_median", "rssi_max", "rssi_min" >>

TrainCategoricalFeatures ==
  << "coverage_size_Small", "coverage_size_Medium", "coverage_size_Large",
     "state_TX", "state_CA", "state_CT", "state_FL", "state_OH", "state_IN",
     "state_PA", "state_WV", "state_IL", "state_NV" >>

\* continuousTensor.max(0) and .min(0), for column i.
ColumnMax(tensor, i) ==
  CHOOSE x \in {tensor[k][i] : k \in DOMAIN tensor} :
    \A k \in DOMAIN tensor : ~LessElement(x, tensor[k][i])

ColumnMin(tensor, i) ==
  CHOOSE x \in {tensor[k][i] : k \in DOMAIN tensor} :
    \A k \in DOMAIN tensor : ~LessElement(tensor[k][i], x)

TrainSafeDenom(denom) ==
  TensorAdd(denom, TensorMul(TensorEqual(denom, ZeroElement), Epsilon))

\* trainModel up to the saved normalization data, for a non-empty list of
\* preprocessed customers.
TrainModel(customers) ==
  LET continuousTensor ==
        [k \in DOMAIN customers |->
           Tensor2d([i \in DOMAIN TrainContinuousFeatures |->
                       FeatureOrZero(customers[k], TrainContinuousFeatures[i])])]
      categoricalTensor ==
        [k \in DOMAIN customers |->
           Tensor2d([i \in DOMAIN TrainCategoricalFeatures |->
                       FeatureOrZero(customers[k], TrainCategoricalFeatures[i])])]
      inputMax ==
        [i \in DOMAIN TrainContinuousFeatures |-> ColumnMax(continuousTensor, i)]
      inputMin ==
        [i \in DOMAIN TrainContinuousFeatures |-> ColumnMin(continuousTensor, i)]
      safeDenom == TrainSafeDenom(TensorSub(inputMax, inputMin))
  IN  [ normalizedInputs |->
          [k \in DOMAIN customers |->
             TensorDiv(TensorSub(continuousTensor[k], inputMin), safeDenom)
               \o categoricalTensor[k]],
        normalizationData |-> [inputMax |-> inputMax, inputMin |-> inputMin] ]

\* ------------------------------------------------------------------------
\* State
\* ------------------------------------------------------------------------
VARIABLES
  phase,       \* "loading": startup loader awaiting the CSV; "serving"; "exited"
  customers,   \* server.js `customers`
  products,    \* server.js `products`
  model,       \* modelPrediction.js `model`: "null" or "LayersModel"
  reqs,        \* per request: position in the handler and its response
  modelLoads,  \* number of tf.loadLayersModel calls started
  normReads,   \* number of loadNormalizationData calls
  predicted,   \* outputs of the loaded network seen so far, per customer name
  call,        \* function-level specifications: the function applied and its arguments
  result       \* function-level specifications: what it returned

vars ==
  << phase, customers, products, model, reqs, modelLoads, normReads,
     predicted, call, result >>

serverVars ==
  << phase, customers, products, model, reqs, modelLoads, normReads,
     predicted >>

\* ------------------------------------------------------------------------
\* Files read by the server
\* ------------------------------------------------------------------------
CsvRows ==
  << [ CustomerName |-> <<"A", "m", "y">>, network_speed |-> <<"1", "G">>,
       wireless_clients_count |-> <<"3">>, state |-> <<"c", "a">> ],
     [ customer_name |-> <<"B", "o">>, network_speed |-> <<"5", "0", "0", "M">>,
       wireless_clients_count |-> <<"2", "0">>, extenders |-> <<"1">>,
       rx_avg_bps |-> <<"7">> ],
     [ network_speed |-> <<"5", "M">>, state |-> <<"N", "Y">> ],
     [ customerName |-> <<"A", "M", "Y">>, extenders |-> <<"2">> ] >>

\* current_customers.csv: some leading rows of CsvRows.
CsvFiles == {SubSeq(CsvRows, 1, n) : n \in 0..MaxCustomers}

ProductPool ==
  << [ name |-> <<"Fiber", "Gig">>, features |-> << <<"Fast">> >>,
       price |-> Num(70) ],
     [ name |-> <<"Wi-Fi", "Security", "Plus">>,
       features |-> << <<"Safe">>, <<"Private">> >>, price |-> Num(10) ],
     [ name |-> <<"Identity Protection">>, features |-> <<>>, price |-> Zero ],
     [ name |-> <<"Router">>, features |-> << <<"Small">> >>, price |-> Num(5) ],
     [ name |-> <<"Unbreakable", "Wi-Fi">>, features |-> <<>>, price |-> Num(25) ] >>

\* product_catalog.md as parsed by loadProductData: some leading products.
CatalogFiles == {SubSeq(ProductPool, 1, n) : n \in 0..MaxCatalog}

\* normalizationData.json as loadNormalizationData finds it.
NormFiles == {"ok", "missing", "corrupt"}

\* Score vectors a loaded network gives in the server specification, one
\* score per product of the catalog: the leading n products score 0 and
\* the others 1, so the ranking keeps or changes the catalog order. (SpecRank
\* draws its score vectors freely.)
ServePredictions(catalog) ==
  { [i \in DOMAIN catalog |-> IF i <= n THEN 0 ELSE 1] :
      n \in 0..Len(catalog) }

\* req.query of a request.
Queries ==
  {EmptyObject} \cup
  { [customerName |-> n] :
      n \in {<<>>, <<"a", "m", "y">>, <<"B", "o">>, <<"Z", "e", "d">>} }

Reqs == 1..MaxReqs

\* load is the request's own tf.loadLayersModel call: "none", "skipped" (the
\* model was there), "pending", "loaded" or "failed". sent lists the
\* responses written, status is the first of them, and failedBefore holds the
\* requests that had been answered 500 when this one was answered.
IdleReq ==
  [ pc |-> "idle", query |-> EmptyObject, seen |-> <<>>, invoked |-> FALSE,
    customer |-> EmptyObject, catalog |-> <<>>, norm |-> "none",
    modelAtPredict |-> "none", status |-> 0, body |-> <<>>,
    load |-> "none", sent |-> <<>>, failedBefore |-> {} ]

\* ------------------------------------------------------------------------
\* server.js: route handler helpers
\* ------------------------------------------------------------------------
\* The predicate of customers.find.
MatchesCustomer(c, customerName) ==
  /\ c["customerName"] # <<>>
  /\ ToLowerCase(c["customerName"]) = ToLowerCase(customerName)

\* A lookup that settles for the first customer.
FindCustomerIndexFirst(list, customerName) == IF list # <<>> THEN 1 ELSE 0

FindCustomerIndex(list, customerName) ==
  IF \E i \in DOMAIN list : MatchesCustomer(list[i], customerName)
  THEN CHOOSE i \in DOMAIN list :
         /\ MatchesCustomer(list[i], customerName)
         /\ \A j \in 1..(i - 1) : ~MatchesCustomer(list[j], customerName)
  ELSE 0

\* The loader without its empty-catalog exit.
PhaseAfterLoadNoExit(loadedProducts) == "serving"

\* What the startup loader does once both files are read.
PhaseAfterLoad(loadedProducts) ==
  IF Len(loadedProducts) = 0 THEN "exited" ELSE "serving"

\* ------------------------------------------------------------------------
\* modelPrediction.js: getRecommendations after `await loadModel()`
\* ------------------------------------------------------------------------
\* Result of the rest of getRecommendations: what it returns or that it throws.
\* norm is what loadNormalizationData finds, predictionArray what the loaded
\* network answers.
AfterLoadModel(customer, catalog, modelNow, norm, predictionArray) ==
  LET preprocessedCustomer == PreprocessCustomer(customer)
  IN  IF norm = "corrupt" THEN [kind |-> "throw", value |-> <<>>]
      ELSE IF norm = "missing" THEN [kind |-> "return", value |-> <<>>]
      ELSE IF modelNow # "LayersModel" THEN [kind |-> "throw", value |-> <<>>]
      ELSE [kind  |-> "return",
            value |-> RankProducts(preprocessedCustomer, catalog,
                                   predictionArray)]

ReachesPredict(modelNow, norm) == norm = "ok" /\ modelNow = "LayersModel"

\* The ranking sorting the catalog array itself.
ProductsAfterRankingInPlace(catalog, predictionArray) ==
  LET sorted == SortByScore(ScoredProducts(catalog, predictionArray))
  IN  [i \in DOMAIN sorted |->
         [ name     |-> sorted[i].productName,
           features |-> sorted[i].features,
           price    |-> sorted[i].price ]]

\* The catalog array after lines 206-220: products.map builds a new array of
\* new objects, and the sort and the rank assignments act on those.
ProductsAfterRanking(catalog, predictionArray) == catalog

\* The customer list after line 137: preprocessCustomers spreads each record
\* into a new object.
CustomersAfterPreprocess(list, customer) == list

\* A failed load remembered in `model`, so that no later call loads again.
ModelAfterLoadFailureKept(modelNow, loaded) ==
  IF loaded THEN "LayersModel" ELSE "failed"

\* `model` once a call of tf.loadLayersModel has settled: assigned when it
\* resolved, left as it is when it rejected.
ModelAfterLoad(modelNow, loaded) ==
  IF loaded THEN "LayersModel" ELSE modelNow

\* The 400 branch without its return: the lookup then throws on the
\* undefined name and the catch block answers again.
ResponsesOnMissingNameNoReturn == <<400, 500>>

\* Responses written for a request without a name.
ResponsesOnMissingName == <<400>>

FailedRequests ==
  {p \in Reqs : reqs[p].pc = "done" /\ reqs[p].status = 500}

\* Score vectors the network may answer for this customer: the one it gave
\* before, if any (predict is a function of its input).
PredictionChoices(customer, catalog) ==
  IF customer["customerName"] \in DOMAIN predicted
  THEN {predicted[customer["customerName"]]}
  ELSE ServePredictions(catalog)

\* The remainder of the route handler once loadModel has settled.
Respond(r, req, modelNow) ==
  \E norm \in NormFiles :
    \E predictionArray \in PredictionChoices(req.customer, req.catalog) :
      LET out == AfterLoadModel(req.customer, req.catalog, modelNow, norm,
                                predictionArray)
          status == IF out.kind = "return" THEN 200 ELSE 500
      IN  /\ reqs' = [reqs EXCEPT ![r] =
                        [req EXCEPT !.pc = "done",
                                    !.norm = norm,
                                    !.modelAtPredict = modelNow,
                                    !.status = status,
                                    !.sent = <<status>>,
                                    !.failedBefore = FailedRequests,
                                    !.body = out.value]]
          /\ normReads' = normReads + 1
          /\ customers' = CustomersAfterPreprocess(customers, req.customer)
          /\ products' =
               IF ReachesPredict(modelNow, norm)
               THEN ProductsAfterRanking(products, predictionArray)
               ELSE products
          /\ predicted' =
               IF ReachesPredict(modelNow, norm)
               THEN (req.customer["customerName"] :> predictionArray)
                      @@ predicted
               ELSE predicted

NoCall == [fn |-> "none"]

NoResult == [done |-> FALSE, value |-> <<>>]

\* ------------------------------------------------------------------------
\* Server specification
\* ------------------------------------------------------------------------
\* The module bodies have run: the loader is suspended in loadCustomerData,
\* the route is registered and the server listens.
Init ==
  /\ phase = "loading"
  /\ customers = <<>>
  /\ products = <<>>
  /\ model = "null"
  /\ reqs = [r \in Reqs |-> IdleReq]
  /\ modelLoads = 0
  /\ normReads = 0
  /\ predicted = EmptyObject
  /\ call = NoCall
  /\ result = NoResult

\* The loader resumes after `await loadCustomerData()` and runs to its end.
StartupLoaded ==
  /\ phase = "loading"
  /\ \E rows \in CsvFiles, catalog \in CatalogFiles :
       /\ customers' = [i \in DOMAIN rows |-> MapCustomer(rows[i])]
       /\ products' = catalog
       /\ phase' = PhaseAfterLoad(catalog)
  /\ UNCHANGED <<model, reqs, modelLoads, normReads, predicted, call, result>>

\* The loader's catch block: loadCustomerData rejects, or the rows are
\* assigned and loadProductData throws; either way the process exits.
StartupFailed ==
  /\ phase = "loading"
  /\ \E rows \in CsvFiles :
       customers' \in {customers, [i \in DOMAIN rows |-> MapCustomer(rows[i])]}
  /\ phase' = "exited"
  /\ UNCHANGED <<products, model, reqs, modelLoads, normReads, predicted,
                 call, result>>

\* GET /recommendations arrives: the handler runs up to its first suspension
\* on a pending model load, or to its response.
Receive(r, query) ==
  /\ phase # "exited"
  /\ reqs[r].pc = "idle"
  /\ r > 1 => reqs[r - 1].pc # "idle"
  /\ LET arrived == [reqs[r] EXCEPT !.query = query, !.seen = customers]
         k == IF Truthy(query, "customerName")
              THEN FindCustomerIndex(customers, query["customerName"])
              ELSE 0
         called == [arrived EXCEPT !.invoked = TRUE,
                                   !.customer = customers[k],
                                   !.catalog = products]
     IN  IF ~Truthy(query, "customerName")
         THEN /\ reqs' = [reqs EXCEPT ![r] =
                            [arrived EXCEPT
                               !.pc = "done",
                               !.status = Head(ResponsesOnMissingName),
                               !.sent = ResponsesOnMissingName,
                               !.failedBefore = FailedRequests]]
              /\ UNCHANGED <<customers, products, modelLoads, normReads,
                             predicted>>
         ELSE IF k = 0
         THEN /\ reqs' = [reqs EXCEPT ![r] =
                            [arrived EXCEPT !.pc = "done", !.status = 404,
                                            !.sent = <<404>>,
                                            !.failedBefore = FailedRequests]]
              /\ UNCHANGED <<customers, products, modelLoads, normReads,
                             predicted>>
         ELSE IF model = "null"
         THEN /\ reqs' = [reqs EXCEPT ![r] =
                            [called EXCEPT !.pc = "loadingModel",
                                           !.load = "pending"]]
              /\ modelLoads' = modelLoads + 1
              /\ UNCHANGED <<customers, products, normReads, predicted>>
         ELSE /\ Respond(r, [called EXCEPT !.load = "skipped"], model)
              /\ UNCHANGED modelLoads
  /\ UNCHANGED <<phase, model, call, result>>

\* tf.loadLayersModel settles for request r; loadModel returns and the rest
\* of getRecommendations and of the handler runs.
LoadModelSettled(r, loaded) ==
  /\ phase # "exited"
  /\ reqs[r].pc = "loadingModel"
  /\ model' = ModelAfterLoad(model, loaded)
  /\ Respond(r, [reqs[r] EXCEPT !.load = IF loaded THEN "loaded" ELSE "failed"],
             model')
  /\ UNCHANGED <<phase, modelLoads, call, result>>

Next ==
  \/ StartupLoaded
  \/ StartupFailed
  \/ \E r \in Reqs, query \in Queries : Receive(r, query)
  \/ \E r \in Reqs, loaded \in BOOLEAN : LoadModelSettled(r, loaded)

Spec == Init /\ [][Next]_vars

\* Request r waits for its tf.loadLayersModel call, which is when
\* LoadModelSettled(r, _) is enabled.
LoadPending(r) == phase # "exited" /\ reqs[r].pc = "loadingModel"

\* The step LoadModelSettled(r, _) takes, and no other action: request r
\* leaves its await and is answered.
LoadSettles(r) == reqs[r].pc = "loadingModel" /\ reqs'[r].pc = "done"

\* The asynchronous reads end: the startup loader's await resumes or rejects,
\* and every pending model load settles, with the model or with an error.
\* The second condition is weak fairness of LoadModelSettled(r, _), its
\* enabling condition written as LoadPending(r) and its step as LoadSettles(r).
FairSpec ==
  /\ Spec
  /\ WF_vars(StartupLoaded \/ StartupFailed)
  /\ \A r \in Reqs :
       \/ []<>~LoadPending(r)
       \/ []<><<LoadSettles(r)>>_vars

\* ------------------------------------------------------------------------
\* Function-level specifications: the inputs are drawn in the initial state
\* and one action applies the function.
\* ------------------------------------------------------------------------
ServerIdle ==
  /\ phase = "loading"
  /\ customers = <<>>
  /\ products = <<>>
  /\ model = "null"
  /\ reqs = [r \in Reqs |-> IdleReq]
  /\ modelLoads = 0
  /\ normReads = 0
  /\ predicted = EmptyObject

StringsUpTo(chars, n) == UNION {[1..k -> chars] : k \in 0..n}

\* --- ranking (getRecommendations, lines 206-232) ---
Scores == 0..MaxScore

InitRank ==
  /\ ServerIdle
  /\ call \in
       UNION { { [fn |-> "rank", products |-> SubSeq(ProductPool, 1, n),
                  predictionArray |-> v] : v \in [1..n -> Scores] }
               : n \in 1..MaxProducts }
  /\ result = NoResult

CallRankProducts ==
  /\ call.fn = "rank"
  /\ ~result.done
  /\ result' = [done  |-> TRUE,
                value |-> RankProducts(PreprocessCustomer(MapCustomer(CsvRows[1])),
                                       call.products, call.predictionArray)]
  /\ UNCHANGED <<serverVars, call>>

SpecRank == InitRank /\ [][CallRankProducts]_vars

\* --- explanations (generateAIExplanation) ---
NameWords ==
  { "Fiber", "Whole-Home", "Wi-Fi", "Security", "Plus", "Total Shield",
    "My Premium Tech Pro", "Identity Protection", "YouTube TV",
    "Additional Extender", "Battery Back-Up for", "Unbreakable", "Gig" }

\* Product names: up to MaxNameWords different words.
ProductNames(n) ==
  UNION { { name \in [1..k -> NameWords] :
              \A i, j \in 1..k : i # j => name[i] # name[j] }
          : k \in 0..n }

InitExplain ==
  /\ ServerIdle
  /\ call \in
       { [fn |-> "explain",
          product |-> [rank |-> 1, productName |-> name, score |-> 1,
                       features |-> << <<"Fast">>, <<"Safe">> >>,
                       price |-> Num(10)]]
         : name \in ProductNames(MaxNameWords) }
  /\ result = NoResult

CallGenerateAIExplanation ==
  /\ call.fn = "explain"
  /\ ~result.done
  /\ result' = [done  |-> TRUE,
                value |-> GenerateAIExplanation(
                            PreprocessCustomer(MapCustomer(CsvRows[1])),
                            call.product)]
  /\ UNCHANGED <<serverVars, call>>

SpecExplain == InitExplain /\ [][CallGenerateAIExplanation]_vars

\* --- network_speed (loadCustomerData's row mapping) ---
SpeedChars == {"5", "0", ".", "M", "m", "G", "g", "K", " "}

InitSpeed ==
  /\ ServerIdle
  /\ call \in
       {[fn |-> "speed", customer |-> EmptyObject]} \cup
       { [fn |-> "speed", customer |-> [network_speed |-> s]]
         : s \in StringsUpTo(SpeedChars, MaxLen) }
  /\ result = NoResult

CallMapCustomer ==
  /\ call.fn = "speed"
  /\ ~result.done
  /\ result' = [done |-> TRUE, value |-> MapCustomer(call.customer)]
  /\ UNCHANGED <<serverVars, call>>

SpecSpeed == InitSpeed /\ [][CallMapCustomer]_vars

\* --- feature extraction (row mapping, then preprocessCustomers) ---
NumberSamples ==
  { <<>>, <<"0">>, <<"7">>, <<"1", "5">>, <<"1", "6">>, <<"2", ".", "5">>,
    <<"-", "6">>, <<"a", "b">>, <<" ", "3">> }

FloatSamples == { <<>>, <<"-", "6", ".", "5">>, <<"x">> }

SpeedSamples ==
  { <<>>, <<"5", "0", "0", "M">>, <<"1", ".", "5", "g">>, <<".", "M">>,
    <<"5", "K">>, <<"f", "a", "s", "t">> }

BooleanSamples == { <<>>, <<"T", "r", "u", "e">>, <<"1">>, <<"n", "o">> }

StateSamples == { <<>>, <<"T", "X">>, <<"n", "V">>, <<"N", "Y">> }

NameSamples == { <<>>, <<"A", "m", "y">> }

CountFields == {"wireless_clients_count", "wired_clients_count", "extenders"}

FloatFields ==
  { "rx_avg_bps", "rxAvgBps", "tx_avg_bps", "rx_p95_bps", "tx_p95_bps",
    "rx_max_bps", "tx_max_bps", "rssi_mean", "rssi_median", "rssi_max",
    "rssi_min" }

BooleanFields == {"wifi_security", "wifi_security_plus", "total_shield"}

NameFields == {"CustomerName", "customerName", "customer_name"}

RawFields ==
  << "wireless_clients_count", "wired_clients_count", "extenders",
     "network_speed", "state", "rx_avg_bps", "rxAvgBps", "tx_avg_bps",
     "rx_p95_bps", "tx_p95_bps", "rx_max_bps", "tx_max_bps", "rssi_mean",
     "rssi_median", "rssi_max", "rssi_min", "wifi_security",
     "wifi_security_plus", "total_shield", "CustomerName", "customerName",
     "customer_name" >>

Samples(key) ==
  IF key \in CountFields THEN NumberSamples
  ELSE IF key \in FloatFields THEN FloatSamples
  ELSE IF key \in BooleanFields THEN BooleanSamples
  ELSE IF key \in NameFields THEN NameSamples
  ELSE IF key = "network_speed" THEN SpeedSamples
  ELSE StateSamples

\* CSV rows with at most n columns, taken among RawFields[i], RawFields[i+1], ...
RECURSIVE RawRows(_, _)
RawRows(i, n) ==
  IF n = 0 \/ i > Len(RawFields) THEN {EmptyObject}
  ELSE RawRows(i + 1, n) \cup
       { (RawFields[i] :> v) @@ row :
           v \in Samples(RawFields[i]), row \in RawRows(i + 1, n - 1) }

InitExtract ==
  /\ ServerIdle
  /\ call \in { [fn |-> "extract", customer |-> row] : row \in RawRows(1, MaxFields) }
  /\ result = NoResult

CallExtract ==
  /\ call.fn = "extract"
  /\ ~result.done
  /\ result' = [done  |-> TRUE,
                value |-> PreprocessCustomer(MapCustomer(call.customer))]
  /\ UNCHANGED <<serverVars, call>>

\* getState applied to the preprocessed record, as generateAIExplanation does.
CallGetState ==
  /\ call.fn = "extract"
  /\ result.done
  /\ "state" \notin DOMAIN result
  /\ result' = [done |-> TRUE, value |-> result.value,
                state |-> GetState(result.value)]
  /\ UNCHANGED <<serverVars, call>>

SpecExtract == InitExtract /\ [][CallExtract \/ CallGetState]_vars

\* --- normalization (getRecommendations, lines 171-199) ---
NormalizeRows ==
  << [ network_speed |-> <<"5", "M">>, wireless_clients_count |-> <<"3">>,
       rx_avg_bps |-> <<"7">>, rssi_mean |-> <<"-", "6", ".", "5">>,
       state |-> <<"T", "X">> ],
     [ network_speed |-> <<".", "M">>, tx_avg_bps |-> <<"2", ".", "5">>,
       extenders |-> <<"2">> ],
     EmptyObject >>

\* normalizationData.json with every feature ranging over 0..10.
BaseNormalizationData ==
  [ inputMax |-> [i \in DOMAIN continuousFeatures |-> <<10, 1>>],
    inputMin |-> [i \in DOMAIN continuousFeatures |-> ZeroElement] ]

\* Stored minima and maxima tried against a feature value: 0, 5e-9, 1e-8, 1
\* and the value itself.
NormalizationSamples(value) ==
  {ZeroElement, <<1, 200000000>>, Epsilon, OneElement, ToElement(value)}

InitNormalize ==
  /\ ServerIdle
  /\ \E k \in DOMAIN NormalizeRows, i \in DOMAIN continuousFeatures :
       LET customer == PreprocessCustomer(MapCustomer(NormalizeRows[k]))
           samples  == NormalizationSamples(InputContinuous(customer)[i])
       IN  \E mn \in samples, mx \in samples :
             call = [ fn |-> "normalize", customer |-> customer,
                      normalizationData |->
                        [ inputMax |->
                            [BaseNormalizationData.inputMax EXCEPT ![i] = mx],
                          inputMin |->
                            [BaseNormalizationData.inputMin EXCEPT ![i] = mn] ] ]
  /\ result = NoResult

CallNormalizedInput ==
  /\ call.fn = "normalize"
  /\ ~result.done
  /\ result' = [done  |-> TRUE,
                value |-> NormalizedInput(call.customer, call.normalizationData)]
  /\ UNCHANGED <<serverVars, call>>

SpecNormalize == InitNormalize /\ [][CallNormalizedInput]_vars

\* --- training and inference inputs (trainModel, then getRecommendations) ---
TrainRows == CsvRows \o NormalizeRows

\* current_customers.csv at training time: up to MaxCustomers rows.
InitTrain ==
  /\ ServerIdle
  /\ call \in UNION { { [fn |-> "train", rows |-> rows]
                        : rows \in [1..n -> {TrainRows[j] : j \in DOMAIN TrainRows}] }
                      : n \in 1..MaxCustomers }
  /\ result = NoResult

\* loadCustomerData's rows, as both trainModel and the server hold them.
LoadedCustomers == [k \in DOMAIN call.rows |-> MapCustomer(call.rows[k])]

CallTrainModel ==
  /\ call.fn = "train"
  /\ ~result.done
  /\ result' =
       [done  |-> TRUE,
        value |-> TrainModel([k \in DOMAIN LoadedCustomers |->
                               PreprocessCustomer(LoadedCustomers[k])])]
  /\ UNCHANGED <<serverVars, call>>

\* getRecommendations builds its input for customer k with the
\* normalization data the training saved.
CallNormalizedInputAfterTraining ==
  /\ call.fn = "train"
  /\ result.done
  /\ "input" \notin DOMAIN result
  /\ \E k \in DOMAIN LoadedCustomers :
       result' = [done |-> TRUE, value |-> result.value, customer |-> k,
                  input |-> NormalizedInput(
                              PreprocessCustomer(LoadedCustomers[k]),
                              result.value.normalizationData)]
  /\ UNCHANGED <<serverVars, call>>

SpecTrain ==
  InitTrain /\ [][CallTrainModel \/ CallNormalizedInputAfterTraining]_vars

\* ------------------------------------------------------------------------
\* Claims on the ranking (SpecRank)
\* ------------------------------------------------------------------------
RankOutput == result.value

\* Position in the catalog of the product an output entry stands for
\* (product names are unique within a catalog).
CatalogPosition(entry) ==
  CHOOSE k \in DOMAIN call.products : call.products[k].name = entry.productName

\* C1: for a catalog of N products and any score vector, the returned list
\* carries exactly the ranks 1..N, and the entry at position k has rank k.
TheoremC1 ==
  (call.fn = "rank" /\ result.done) =>
     /\ Len(RankOutput) = Len(call.products)
     /\ {RankOutput[k].rank : k \in DOMAIN RankOutput} = 1..Len(call.products)
     /\ \A k \in DOMAIN RankOutput : RankOutput[k].rank = k

\* The sort moved a product: the first catalog item is ranked last of three
\* or more.
WitnessC1 ==
  /\ call.fn = "rank" /\ result.done
  /\ Len(call.products) >= 3
  /\ RankOutput[Len(RankOutput)].productName = call.products[1].name
  /\ RankOutput[Len(RankOutput)].rank = Len(call.products)

\* C2: the output is ordered by score descending, and two items with equal
\* scores keep their relative catalog order.
TheoremC2 ==
  (call.fn = "rank" /\ result.done) =>
     \A i, j \in DOMAIN RankOutput :
        i < j =>
          /\ RankOutput[i].score >= RankOutput[j].score
          /\ RankOutput[i].score = RankOutput[j].score
               => CatalogPosition(RankOutput[i]) < CatalogPosition(RankOutput[j])

\* A tie between two items that the sort both moved behind a later item.
WitnessC2 ==
  /\ call.fn = "rank" /\ result.done
  /\ \E i, j \in DOMAIN RankOutput :
        /\ 1 < i /\ i < j
        /\ RankOutput[i].score = RankOutput[j].score
        /\ RankOutput[1].score > RankOutput[i].score
        /\ CatalogPosition(RankOutput[1]) > CatalogPosition(RankOutput[j])

\* ------------------------------------------------------------------------
\* Claims on the explanations (SpecExplain)
\* ------------------------------------------------------------------------
ExplainedName == ToLowerCase(call.product.productName)

\* The keyword phrases in the order the claim fixes.
KeywordOrder ==
  << <<"fiber">>, <<"whole-home", "wi-fi">>, <<"wi-fi", "security", "plus">>,
     <<"wi-fi", "security">>, <<"total shield">>, <<"my premium tech pro">>,
     <<"identity protection">>, <<"youtube tv">>, <<"additional extender">>,
     <<"battery back-up for", "unbreakable", "wi-fi">>,
     <<"unbreakable", "wi-fi">> >>

TemplateOrder ==
  << "fiber", "whole-home wi-fi", "wi-fi security plus", "wi-fi security",
     "total shield", "my premium tech pro", "identity protection",
     "youtube tv", "additional extender",
     "battery back-up for unbreakable wi-fi", "unbreakable wi-fi" >>

MatchesKeyword(i) == Includes(ExplainedName, KeywordOrder[i])

\* C9 as stated: the first matching keyword selects the template, the
\* generic template is used when none matches, and every product whose name
\* contains "wi-fi security plus" gets the security-plus template, every
\* product whose name contains "battery back-up for unbreakable wi-fi" the
\* battery template.
OriginalC9 ==
  (call.fn = "explain" /\ result.done) =>
     /\ \A i \in DOMAIN KeywordOrder :
          (MatchesKeyword(i) /\ \A j \in 1..(i - 1) : ~MatchesKeyword(j))
             => result.value.template = TemplateOrder[i]
     /\ (\A i \in DOMAIN KeywordOrder : ~MatchesKeyword(i))
          => result.value.template = "generic"
     /\ MatchesKeyword(3) => result.value.template = "wi-fi security plus"
     /\ MatchesKeyword(10)
          => result.value.template = "battery back-up for unbreakable wi-fi"

\* C9 (amended): the template is that of the first keyword, in the fixed
\* order, that the lowercased name contains; a name containing "wi-fi
\* security plus" never gets the plain "wi-fi security" template and gets the
\* security-plus template unless an earlier keyword ("fiber", "whole-home
\* wi-fi") also matches; likewise "battery back-up for unbreakable wi-fi"
\* before "unbreakable wi-fi"; with no match the generic template lists the
\* product's feature phrases.
TheoremC9 ==
  (call.fn = "explain" /\ result.done) =>
     /\ \A i \in DOMAIN KeywordOrder :
          (MatchesKeyword(i) /\ \A j \in 1..(i - 1) : ~MatchesKeyword(j))
             => result.value.template = TemplateOrder[i]
     /\ MatchesKeyword(3) => result.value.template # "wi-fi security"
     /\ (MatchesKeyword(3) /\ ~MatchesKeyword(1) /\ ~MatchesKeyword(2))
          => result.value.template = "wi-fi security plus"
     /\ MatchesKeyword(10) => result.value.template # "unbreakable wi-fi"
     /\ (MatchesKeyword(10) /\ \A j \in 1..9 : ~MatchesKeyword(j))
          => result.value.template = "battery back-up for unbreakable wi-fi"
     /\ (\A i \in DOMAIN KeywordOrder : ~MatchesKeyword(i))
          => /\ result.value.template = "generic"
             /\ result.value.args = [features |-> call.product.features]

\* "Wi-Fi Security Plus" itself, explained with the security-plus template.
WitnessC9 ==
  /\ call.fn = "explain" /\ result.done
  /\ call.product.productName = <<"Wi-Fi", "Security", "Plus">>
  /\ result.value.template = "wi-fi security plus"

\* ------------------------------------------------------------------------
\* Claims on network_speed (SpecSpeed)
\* ------------------------------------------------------------------------
SpeedInput == call.customer["network_speed"]

SpeedOutput == result.value["network_speed"]

\* A decimal numeral: digits with at most one point and at least one digit.
IsNumeral(d) ==
  /\ \A i \in DOMAIN d : d[i] \in DigitOrDot
  /\ Cardinality({i \in DOMAIN d : d[i] = "."}) <= 1
  /\ \E i \in DOMAIN d : d[i] \in Digits

\* Its value, in 1/Scale units.
NumeralValue(d) ==
  LET points == {i \in DOMAIN d : d[i] = "."}
      p      == IF points = {} THEN Len(d) + 1 ELSE CHOOSE i \in points : TRUE
      frac   == SubSeq(d, p + 1, Len(d))
  IN  DigitsValue(SubSeq(d, 1, p - 1)) * Scale
        + (DigitsValue(frac) * Scale) \div Pow10(Len(frac))

\* s is the numeral d followed by the unit u, a non-empty run of letters.
IsValueWithUnit(s, n) ==
  /\ 1 <= n /\ n < Len(s)
  /\ IsNumeral(SubSeq(s, 1, n))
  /\ \A i \in (n + 1)..Len(s) : s[i] \in Letters

HasNoLetter(s) == \A i \in DOMAIN s : s[i] \notin Letters

SpeedCase == call.fn = "speed" /\ result.done /\ Has(call.customer, "network_speed")

\* C10 as stated: unit G yields 1000 times the value, unit M the value,
\* and every other unit, a string without unit, an empty string and an
\* absent field yield 0.
OriginalC10 ==
  /\ (call.fn = "speed" /\ result.done /\ ~Has(call.customer, "network_speed"))
        => SpeedOutput = Zero
  /\ SpeedCase =>
       /\ HasNoLetter(SpeedInput) => SpeedOutput = Zero
       /\ \A n \in DOMAIN SpeedInput :
            IsValueWithUnit(SpeedInput, n) =>
               LET unit == SubSeq(SpeedInput, n + 1, Len(SpeedInput))
                   v    == NumeralValue(SubSeq(SpeedInput, 1, n))
               IN  IF unit \in {<<"G">>, <<"g">>}
                   THEN SpeedOutput = <<1000 * v>>
                   ELSE IF unit \in {<<"M">>, <<"m">>}
                   THEN SpeedOutput = <<v>>
                   ELSE SpeedOutput = Zero

\* C10 (amended): a numeral followed by the unit "G" or "g" yields 1000 times
\* its value; followed by any other unit (among them "M" and "m") it yields
\* the value itself; a string without any letter, an empty string and an
\* absent field yield 0.
TheoremC10 ==
  /\ (call.fn = "speed" /\ result.done /\ ~Has(call.customer, "network_speed"))
        => SpeedOutput = Zero
  /\ SpeedCase =>
       /\ HasNoLetter(SpeedInput) => SpeedOutput = Zero
       /\ \A n \in DOMAIN SpeedInput :
            IsValueWithUnit(SpeedInput, n) =>
               LET unit == SubSeq(SpeedInput, n + 1, Len(SpeedInput))
                   v    == NumeralValue(SubSeq(SpeedInput, 1, n))
               IN  IF unit \in {<<"G">>, <<"g">>}
                   THEN SpeedOutput = <<1000 * v>>
                   ELSE SpeedOutput = <<v>>

\* ".5g": a lower-case giga unit on a fractional numeral.
WitnessC10 ==
  /\ SpeedCase
  /\ SpeedInput = <<".", "5", "g">>
  /\ SpeedOutput = <<500 * Scale>>

\* ------------------------------------------------------------------------
\* Claims on feature extraction (SpecExtract)
\* ------------------------------------------------------------------------
SchemaKeys ==
  {continuousFeatures[i] : i \in DOMAIN continuousFeatures}
    \cup {categoricalFeatures[i] : i \in DOMAIN categoricalFeatures}

\* C4: for every raw record, extraction returns a record in which every
\* schema-declared continuous and categorical key is present with a finite
\* number (0 where the source field is missing or unparseable).
OriginalC4 ==
  (call.fn = "extract" /\ result.done) =>
     \A key \in SchemaKeys :
        /\ Has(result.value, key)
        /\ IsFinite(result.value[key])

\* ------------------------------------------------------------------------
\* Claims on the server (Spec)
\* ------------------------------------------------------------------------
Answered(r) == reqs[r].pc = "done"

\* getRecommendations returned a list to the handler, which sent it.
ReturnedList(r) == Answered(r) /\ reqs[r].invoked /\ reqs[r].status = 200

\* C3: for a resolved customer and a non-empty catalog the returned list
\* holds every catalog item exactly once.
OriginalC3 ==
  \A r \in Reqs :
     (ReturnedList(r) /\ Len(reqs[r].catalog) > 0) =>
        /\ Len(reqs[r].body) = Len(reqs[r].catalog)
        /\ \A k \in DOMAIN reqs[r].catalog :
             Cardinality({i \in DOMAIN reqs[r].body :
                            reqs[r].body[i].productName = reqs[r].catalog[k].name})
               = 1

\* C5: when the normalization parameters are missing or the model could not
\* be loaded, getRecommendations fails explicitly and returns no list.
OriginalC5 ==
  \A r \in Reqs :
     ( /\ Answered(r) /\ reqs[r].invoked
       /\ (reqs[r].norm = "missing" \/ reqs[r].modelAtPredict = "null") )
       => reqs[r].status = 500

\* C6: the model artifact and the normalization parameters are each read
\* from disk at most once in the life of the process.
OriginalC6 == modelLoads <= 1 /\ normReads <= 1

\* C7: getRecommendations is never invoked with an empty catalog, and a load
\* that yields no products ends the process.
TheoremC7 ==
  /\ \A r \in Reqs : reqs[r].invoked => Len(reqs[r].catalog) > 0
  /\ (phase # "loading" /\ Len(products) = 0) => phase = "exited"

\* Customers were loaded, the catalog was empty, the process exited; a named
\* request that came in while loading had been answered.
WitnessC7 ==
  /\ phase = "exited"
  /\ Len(customers) > 0
  /\ Len(products) = 0
  /\ \E r \in Reqs : Answered(r) /\ Truthy(reqs[r].query, "customerName")

\* The query names a customer of the list the handler searched.
Resolvable(r) ==
  /\ Truthy(reqs[r].query, "customerName")
  /\ \E i \in DOMAIN reqs[r].seen :
       ToLowerCase(reqs[r].seen[i]["customerName"])
         = ToLowerCase(reqs[r].query["customerName"])

TheoremC15 ==
  [][(phase # "loading" \/ reqs' # reqs)
       => (products' = products /\ customers' = customers)]_vars

\* A request was answered with the second catalog item ranked first, and the
\* catalog and the customer records are as loaded.
WitnessC15 ==
  /\ products = SubSeq(ProductPool, 1, 2)
  /\ \A i \in DOMAIN customers : customers[i] = MapCustomer(CsvRows[i])
  /\ \E r \in Reqs :
       /\ ReturnedList(r)
       /\ Len(reqs[r].body) = 2
       /\ reqs[r].body[1].productName = products[2].name

\* What the request's own situation allows: the normalization file was
\* readable, and the model was there or its own load succeeded.
OwnInputsValid(q) ==
  /\ reqs[q].norm = "ok"
  /\ reqs[q].load \in {"skipped", "loaded"}

\* The ranked list of the request's customer: a function of the customer
\* record, the catalog and the network's output for that customer.
OwnRankedList(q) ==
  RankProducts(PreprocessCustomer(reqs[q].customer), products,
               predicted[reqs[q].customer["customerName"]])

\* C16: a request answered after another customer's request failed, and
\* whose own inputs are valid, completes with 200 and the ranked list of its
\* own customer, as it would without the failed request.
TheoremC16 ==
  \A r, q \in Reqs :
     ( /\ Answered(q) /\ reqs[q].invoked
       /\ r \in reqs[q].failedBefore
       /\ reqs[r].customer # reqs[q].customer
       /\ OwnInputsValid(q) )
       => /\ reqs[q].status = 200
          /\ reqs[q].body = OwnRankedList(q)

\* One customer's request was answered 500; afterwards another customer's
\* request, arriving with the model still unloaded, loaded it and was served.
WitnessC16 ==
  \E r, q \in Reqs :
     /\ reqs[r].status = 500
     /\ r \in reqs[q].failedBefore
     /\ reqs[r].customer # reqs[q].customer
     /\ reqs[q].load = "loaded"
     /\ reqs[q].status = 200
     /\ Len(reqs[q].body) = Len(products)

\* C17: once a call of loadModel has failed, no later getRecommendations
\* call starts loading the model again.
OriginalC17 ==
  [][(\E r \in Reqs : reqs[r].load = "failed") => modelLoads' = modelLoads]_vars

Received(r) == reqs[r].pc # "idle"

\* The pipeline threw for the request: unreadable normalization data, or no
\* model to predict with.
PipelineThrew(r) ==
  reqs[r].invoked
    /\ (reqs[r].norm = "corrupt"
          \/ (reqs[r].norm = "ok" /\ reqs[r].modelAtPredict # "LayersModel"))

\* C18: every request received is eventually answered, exactly once: 400
\* without a name, 404 when no loaded customer matches (always so while
\* startup is loading), 500 when the pipeline threw, else 200 with the list
\* getRecommendations returned; nothing is written before or after.
TheoremC18 ==
  /\ [](\A r \in Reqs :
          /\ ~Answered(r) => reqs[r].sent = <<>>
          /\ Answered(r) =>
               /\ Len(reqs[r].sent) = 1
               /\ reqs[r].sent[1] \in {400, 404, 200, 500}
               /\ reqs[r].sent[1] = 400 <=> ~Truthy(reqs[r].query, "customerName")
               /\ reqs[r].sent[1] = 404 <=>
                    (Truthy(reqs[r].query, "customerName") /\ ~reqs[r].invoked)
               /\ reqs[r].sent[1] = 500 <=> PipelineThrew(r)
               /\ reqs[r].seen = <<>> => reqs[r].sent[1] \in {400, 404})
  /\ [][\A r \in Reqs : Answered(r) => reqs'[r] = reqs[r]]_vars
  /\ \A r \in Reqs : Received(r) ~> Answered(r)

\* A named request that came while startup was loading got 404; a later one
\* waited for the model and got 200.
WitnessC18 ==
  \E r, q \in Reqs :
     /\ reqs[r].seen = <<>>
     /\ Truthy(reqs[r].query, "customerName")
     /\ reqs[r].sent = <<404>>
     /\ reqs[q].load = "loaded"
     /\ reqs[q].sent = <<200>>

\* ------------------------------------------------------------------------
\* Claims on the derived categories (SpecExtract)
\* ------------------------------------------------------------------------
ExtractInput == call.customer

ExtractOutput == result.value

\* The extender count of the row: its leading integer, 0 when it has none.
ExtenderCount == OrZero(ParseIntProp(ExtractInput, "extenders"))

DeviceCount == ExtractOutput["total_devices"]

DerivedCoverage ==
  IF ExtenderCount[1] >= Num(2)[1] \/ DeviceCount[1] > Num(15)[1]
  THEN "coverage_size_Large"
  ELSE IF ExtenderCount = Zero /\ DeviceCount[1] <= Num(5)[1]
  THEN "coverage_size_Small"
  ELSE "coverage_size_Medium"

\* C11: the coverage size of every record is Large when the extender count
\* is at least 2 or the device count exceeds 15, else Small when there is no
\* extender and at most 5 devices, else Medium; after preprocessCustomers the
\* bit of that category is 1 and the two other coverage bits are 0.
TheoremC11 ==
  (call.fn = "extract" /\ result.done) =>
    /\ ExtractOutput["coverage_size"]
         = CoverageSizes[CoverageIndex(DerivedCoverage)]
    /\ \A key \in CoverageKeySet :
         ExtractOutput[key] = IF key = DerivedCoverage THEN Num(1) ELSE Zero

\* A row with two extenders and few devices came out Large.
WitnessC11 ==
  /\ call.fn = "extract" /\ result.done
  /\ ExtenderCount = Num(2)
  /\ DeviceCount[1] <= Num(5)[1]
  /\ ExtractOutput["coverage_size_Large"] = Num(1)
  /\ ExtractOutput["coverage_size_Small"] = Zero

\* The region column of the row ("" when the row has none).
Region == IF Has(ExtractInput, "state") THEN ExtractInput["state"] ELSE <<>>

\* The region is the i-th code of the vocabulary, in either case.
IsRegion(i) == ToUpperCase(Region) = States[i]

SetStateBits == {i \in DOMAIN StateKeys : ExtractOutput[StateKeys[i]] = Num(1)}

\* C12: the region bits follow the closed vocabulary TX, CA, CT, FL, OH, IN,
\* PA, WV, IL, NV: at most one bit is 1, a supported region sets exactly its
\* own bit, an unsupported or absent region sets none; getState returns the
\* code of the set bit, and "Unknown" exactly when no bit is set.
TheoremC12 ==
  (call.fn = "extract" /\ result.done) =>
    /\ \A i \in DOMAIN StateKeys :
         ExtractOutput[StateKeys[i]] = IF IsRegion(i) THEN Num(1) ELSE Zero
    /\ Cardinality(SetStateBits) <= 1
    /\ "state" \in DOMAIN result =>
         /\ \A i \in SetStateBits : result.state = States[i]
         /\ (result.state = <<"Unknown">>) <=> (SetStateBits = {})

\* A lower-case "nV" row set the NV bit alone and getState answered NV.
WitnessC12 ==
  /\ call.fn = "extract" /\ result.done
  /\ Region = <<"n", "V">>
  /\ SetStateBits = {10}
  /\ "state" \in DOMAIN result
  /\ result.state = <<"N", "V">>

\* ------------------------------------------------------------------------
\* Claims on the normalizer (SpecNormalize)
\* ------------------------------------------------------------------------
NormalizeOutput == result.value

FeatureValue(i) == ToElement(InputContinuous(call.customer)[i])

StoredMin(i) == call.normalizationData.inputMin[i]

StoredMax(i) == call.normalizationData.inputMax[i]

\* max(max[i] - min[i], 1e-8)
ClampedRange(i) ==
  LET range == SubElement(StoredMax(i), StoredMin(i))
  IN  IF LessElement(range, Epsilon) THEN Epsilon ELSE range

\* C13 as stated: every continuous feature i is normalized to
\* (value - min[i]) / max(max[i] - min[i], 1e-8); with min[i] = max[i] the
\* result is finite, and a value equal to min[i] normalizes to 0.
OriginalC13 ==
  (call.fn = "normalize" /\ result.done) =>
    \A i \in DOMAIN continuousFeatures :
      /\ NormalizeOutput[i]
           = DivElement(SubElement(FeatureValue(i), StoredMin(i)), ClampedRange(i))
      /\ StoredMin(i) = StoredMax(i) => IsFiniteElement(NormalizeOutput[i])
      /\ FeatureValue(i) = StoredMin(i) => NormalizeOutput[i] = ZeroElement

\* The divisor the code uses: 1e-8 where max[i] - min[i] is exactly 0, and
\* max[i] - min[i] itself everywhere else.
GuardedRange(i) ==
  IF StoredMax(i) = StoredMin(i) THEN Epsilon
  ELSE SubElement(StoredMax(i), StoredMin(i))

\* C13: for finite value, min and max, every continuous feature i is
\* normalized to (value - min[i]) / d, where d is 1e-8 when max[i] equals
\* min[i] and max[i] - min[i] otherwise; d is never 0, so the result is
\* finite, and a value equal to min[i] normalizes to 0.
TheoremC13 ==
  (call.fn = "normalize" /\ result.done) =>
    \A i \in DOMAIN continuousFeatures :
      /\ GuardedRange(i) # ZeroElement
      /\ IsFiniteElement(NormalizeOutput[i])
      /\ MulElement(NormalizeOutput[i], GuardedRange(i))
           = SubElement(FeatureValue(i), StoredMin(i))
      /\ FeatureValue(i) = StoredMin(i) => NormalizeOutput[i] = ZeroElement

\* A feature with min = max was divided by 1e-8: 7 became 7e8.
WitnessC13 ==
  /\ call.fn = "normalize" /\ result.done
  /\ \E i \in DOMAIN continuousFeatures :
       /\ StoredMin(i) = StoredMax(i)
       /\ StoredMin(i) = ZeroElement
       /\ FeatureValue(i) = <<7, 1>>
       /\ NormalizeOutput[i] = <<700000000, 1>>

\* ------------------------------------------------------------------------
\* Claims on the input vector (SpecTrain)
\* ------------------------------------------------------------------------
InferenceInput == result.input

InferenceCustomer == PreprocessCustomer(LoadedCustomers[result.customer])

SavedMin(i) == result.value.normalizationData.inputMin[i]

SavedMax(i) == result.value.normalizationData.inputMax[i]

SavedRange(i) ==
  IF SavedMax(i) = SavedMin(i) THEN Epsilon
  ELSE SubElement(SavedMax(i), SavedMin(i))

Width == Len(continuousFeatures)

\* The customer's value of a feature as it is fed in: NaN counts as 0.
FedValue(feature) == ToElement(OrZero(InferenceCustomer[feature]))

\* C14: the inference input is the normalized continuous block followed by
\* the categorical values unchanged, position for position in schema order;
\* the feature lists of getRecommendations and of trainModel are the same,
\* and the vector built for a customer equals the row trainModel built for
\* that customer, so position i is the same feature in both.
TheoremC14 ==
  /\ continuousFeatures = TrainContinuousFeatures
  /\ categoricalFeatures = TrainCategoricalFeatures
  /\ (call.fn = "train" /\ "input" \in DOMAIN result) =>
       /\ Len(InferenceInput) = Width + Len(categoricalFeatures)
       /\ \A i \in DOMAIN continuousFeatures :
            MulElement(InferenceInput[i], SavedRange(i))
              = SubElement(FedValue(continuousFeatures[i]), SavedMin(i))
       /\ \A j \in DOMAIN categoricalFeatures :
            InferenceInput[Width + j] = FedValue(categoricalFeatures[j])
       /\ InferenceInput = result.value.normalizedInputs[result.customer]

\* Two customers trained on; the one served holds the largest network speed,
\* which sits at position 3 as 1, and its Large bit sits at position 15.
WitnessC14 ==
  /\ call.fn = "train" /\ "input" \in DOMAIN result
  /\ Len(call.rows) = 2
  /\ SavedMax(3) # SavedMin(3)
  /\ InferenceInput[3] = OneElement
  /\ InferenceCustomer["coverage_size"] = <<"Large">>
  /\ InferenceInput[15] = OneElement
  /\ InferenceInput[13] = ZeroElement

====
